---- MODULE Spec2Model ----
(***************************************************************************)
(* Plan resolution of the Atlas service broker (pkg/broker/broker.go):     *)
(* getClient -> getPlan -> getInstancePlan / parsePlan, credential routing *)
(* and the remote project lookup.                                          *)
(*                                                                         *)
(* Go values are modelled as follows.                                      *)
(*   nil pointer            [nil |-> TRUE]                                 *)
(*   *credentials.APIKey    [OrgID, PublicKey, PrivateKey]                 *)
(*   *mongodbatlas.Project  [ID, Name, OrgID]                              *)
(*   error                  a string, "" is the nil error                  *)
(*   loosely typed document a function from keys to tagged values          *)
(*                          [t |-> "null"], [t |-> "str", v |-> s],        *)
(*                          [t |-> "obj", v |-> function of fields],       *)
(*                          [t |-> "list", v |-> sequence of objects],     *)
(*                          [t |-> "chan"] (a Go value JSON cannot encode) *)
(***************************************************************************)
EXTENDS Integers, Sequences, FiniteSets, TLC

\* ------------------------------------------------------------------ bounds
MaxCalls == 2

MaxDoCalls == 1

\* ------------------------------------------------------------- Go values
Nil == [nil |-> TRUE]

IsNil(p) == p = Nil

NoErr == ""

ZeroKey == [OrgID |-> "", PublicKey |-> "", PrivateKey |-> ""]

ZeroProject == [ID |-> "", Name |-> "", OrgID |-> ""]

ZeroCluster == [InstanceSizeName |-> ""]

\* dynamicplans.Plan{}: every pointer nil, every slice empty
ZeroPlan ==
    [Name |-> "", APIKey |-> Nil, Project |-> Nil, Cluster |-> Nil,
     DatabaseUsers |-> << >>, IPWhitelists |-> << >>]

\* tagged document values
Null == [t |-> "null"]

Str(s) == [t |-> "str", v |-> s]

Obj(f) == [t |-> "obj", v |-> f]

List(s) == [t |-> "list", v |-> s]

Chan == [t |-> "chan"]

EmptyDoc == [k \in {} |-> Null]

\* ------------------------------------------------- decoding into a Plan
\* key spellings a decoder accepts for the fields of a struct.  The YAML
\* decoder matches the tag exactly; encoding/json and mapstructure also
\* accept any other capitalisation of the name.
ProjectTags == ("id" :> "ID") @@ ("name" :> "Name") @@ ("orgId" :> "OrgID")

ProjectFold == ProjectTags @@ ("ID" :> "ID") @@ ("Name" :> "Name") @@ ("OrgID" :> "OrgID")

KeyTags == ("orgID" :> "OrgID") @@ ("publicKey" :> "PublicKey") @@ ("privateKey" :> "PrivateKey")

KeyFold == KeyTags @@ ("OrgID" :> "OrgID") @@ ("PublicKey" :> "PublicKey") @@ ("PrivateKey" :> "PrivateKey")

ClusterTags == ("instanceSizeName" :> "InstanceSizeName")

EntryTags == ("ipAddress" :> "IPAddress") @@ ("username" :> "Username") @@ ("groupId" :> "GroupID")

ZeroEntry == [IPAddress |-> "", Username |-> "", GroupID |-> ""]

PlanTags ==
    ("name" :> "Name") @@ ("apiKey" :> "APIKey") @@ ("project" :> "Project")
    @@ ("cluster" :> "Cluster") @@ ("databaseUsers" :> "DatabaseUsers")
    @@ ("ipWhitelists" :> "IPWhitelists")

PlanFold ==
    PlanTags @@ ("Name" :> "Name") @@ ("APIKey" :> "APIKey") @@ ("Project" :> "Project")
    @@ ("Cluster" :> "Cluster")

\* the keys of document f that address struct field fld
KeysFor(f, names, fld) == {k \in DOMAIN f \cap DOMAIN names : names[k] = fld}

\* decode object f into the struct value base: a field whose key is present
\* is set, every other field keeps the value it has in base
DecodeObj(base, f, names) ==
    [fld \in DOMAIN base |->
        IF KeysFor(f, names, fld) # {}
        THEN f[CHOOSE k \in KeysFor(f, names, fld) : TRUE]
        ELSE base[fld]]

\* decode a document value into a pointer-to-struct field holding cur
DecodePtr(cur, zero, val, names) ==
    CASE val.t = "null" -> [v |-> Nil, bad |-> FALSE]
      [] val.t = "obj"  -> [v |-> DecodeObj(IF IsNil(cur) THEN zero ELSE cur, val.v, names),
                            bad |-> FALSE]
      [] OTHER          -> [v |-> cur, bad |-> TRUE]

\* decode a document value into a string field holding cur
DecodeStr(cur, val) ==
    CASE val.t = "null" -> [v |-> cur, bad |-> FALSE]
      [] val.t = "str"  -> [v |-> val.v, bad |-> FALSE]
      [] OTHER          -> [v |-> cur, bad |-> TRUE]

\* decode a document value into a slice of struct pointers holding cur:
\* element i is decoded into the element already at index i when there is one
DecodeList(cur, val) ==
    CASE val.t = "null" -> [v |-> << >>, bad |-> FALSE]
      [] val.t = "list" ->
            [v |-> [i \in 1..Len(val.v) |->
                      DecodeObj(IF i <= Len(cur) THEN cur[i] ELSE ZeroEntry,
                                val.v[i], EntryTags)],
             bad |-> FALSE]
      [] OTHER          -> [v |-> cur, bad |-> TRUE]

DecodeField(fld, cur, val, fold) ==
    CASE fld = "Name"    -> DecodeStr(cur, val)
      [] fld = "APIKey"  -> DecodePtr(cur, ZeroKey, val, IF fold THEN KeyFold ELSE KeyTags)
      [] fld = "Project" -> DecodePtr(cur, ZeroProject, val, IF fold THEN ProjectFold ELSE ProjectTags)
      [] fld = "Cluster" -> DecodePtr(cur, ZeroCluster, val, ClusterTags)
      [] OTHER           -> DecodeList(cur, val)

\* decode document doc onto the Plan p.  A value of the wrong type is
\* reported, and the decoder goes on with the remaining keys.
DecodePlan(p, doc, names, fold) ==
    LET one(fld) == DecodeField(fld, p[fld],
                        doc[CHOOSE k \in KeysFor(doc, names, fld) : TRUE], fold)
        hit(fld) == KeysFor(doc, names, fld) # {}
    IN [plan |-> [fld \in DOMAIN p |-> IF hit(fld) THEN one(fld).v ELSE p[fld]],
        bad  |-> \E fld \in DOMAIN p : hit(fld) /\ one(fld).bad]

\* ------------------------------------------------- the broker's surroundings
\* credentials.Credentials held by the Broker: organization id -> API key
OrgKeys == ("org1" :> [OrgID |-> "org1", PublicKey |-> "pub1", PrivateKey |-> "priv1"])

\* Credentials.ByOrg
ByOrg(orgID) ==
    IF orgID \in DOMAIN OrgKeys
    THEN [key |-> OrgKeys[orgID], err |-> NoErr]
    ELSE [key |-> ZeroKey, err |-> "no credentials for org"]

\* b.catalog.plans: plan id -> Metadata.AdditionalMetadata of the service plan
Catalog ==
    ("full-plan" :> ("template" :> "full-plan"))
    @@ ("pinned" :> ("template" :> "pinned"))
    @@ ("cluster-only" :> ("template" :> "cluster-only"))
    @@ ("bad-yaml" :> ("template" :> "bad-yaml"))
    @@ ("bogus" :> ("description" :> "no template"))

PlanIDs == DOMAIN Catalog \cup {"missing"}

\* rendered text that is not a YAML document
Malformed == [t |-> "malformed"]

\* Context.With: a copy of the context extended with one more key
With(ctx, key, value) ==
    [k \in DOMAIN ctx \cup {key} |-> IF k = key THEN value ELSE ctx[k]]

\* tpl.Execute: the text a template renders for a context, as the document
\* that text denotes.  full-plan is the template of the catalog sample; a
\* field of a missing or non-map value fails the execution, a missing key of
\* a map renders as "<no value>".
FullPlan(ctx) ==
    LET okProject == "Project" \in DOMAIN ctx /\ ctx["Project"].t = "obj"
        okCreds   == /\ "Credentials" \in DOMAIN ctx
                     /\ ctx["Credentials"].t = "obj"
                     /\ "Projects" \in DOMAIN ctx["Credentials"].v
        prj       == ctx["Project"].v
        keys      == ctx["Credentials"].v["Projects"]
        fld(k)    == IF k \in DOMAIN prj THEN prj[k] ELSE "<no value>"
        entry(ip) == ("ipAddress" :> ip) @@ ("groupId" :> fld("ID"))
    IN IF ~(okProject /\ okCreds /\ "ID" \in DOMAIN prj)
       THEN [err |-> TRUE, raw |-> Malformed]
       ELSE [err |-> FALSE,
             raw |-> ("name" :> Str("full-plan"))
                 @@ ("apiKey" :> IF prj["ID"] \in DOMAIN keys THEN Obj(keys[prj["ID"]]) ELSE Null)
                 @@ ("project" :> Obj(("id" :> fld("ID")) @@ ("name" :> fld("Name"))
                                      @@ ("orgId" :> fld("OrgID"))))
                 @@ ("cluster" :> Obj("instanceSizeName" :> "M20"))
                 @@ ("databaseUsers" :> List(<<("username" :> "test-user") @@ ("groupId" :> fld("ID"))>>))
                 @@ ("ipWhitelists" :> List(<<entry("0.0.0.0/1"), entry("128.0.0.0/1")>>))]

Execute(tpl, ctx) ==
    CASE tpl = "full-plan" -> FullPlan(ctx)
      [] tpl = "pinned" ->
            [err |-> FALSE,
             raw |-> ("name" :> Str("pinned"))
                 @@ ("apiKey" :> Obj(("orgID" :> "org2") @@ ("publicKey" :> "pub2")
                                     @@ ("privateKey" :> "priv2")))
                 @@ ("project" :> Obj(("name" :> "pinned-proj") @@ ("orgId" :> "org1")))]
      [] tpl = "cluster-only" ->
            [err |-> FALSE,
             raw |-> ("name" :> Str("cluster-only"))
                 @@ ("cluster" :> Obj("instanceSizeName" :> "M10"))]
      [] OTHER -> [err |-> FALSE, raw |-> Malformed]

\* yaml.NewDecoder(raw).Decode(dp) into a fresh Plan
YamlDecode(raw) ==
    IF raw = Malformed
    THEN [plan |-> ZeroPlan, bad |-> TRUE]
    ELSE DecodePlan(ZeroPlan, raw, PlanTags, FALSE)

\* json.Marshal(ctx): fails, leaving no bytes, on a value JSON cannot encode
Marshal(ctx) ==
    IF \E k \in DOMAIN ctx : ctx[k].t = "chan"
    THEN [ok |-> FALSE, doc |-> EmptyDoc]
    ELSE [ok |-> TRUE, doc |-> ctx]

\* the merge that decodes the context into a fresh Plan and drops the rendered one
Unmarshal_fresh(pb, dp) ==
    IF ~pb.ok
    THEN [plan |-> dp, bad |-> TRUE]
    ELSE DecodePlan(ZeroPlan, pb.doc, PlanFold, TRUE)

\* json.Unmarshal(pb, &dp): no bytes is a syntax error that leaves dp alone
Unmarshal(pb, dp) ==
    IF ~pb.ok
    THEN [plan |-> dp, bad |-> TRUE]
    ELSE DecodePlan(dp, pb.doc, PlanFold, TRUE)

\* ------------------------------------------------------------ inputs
\* request contexts (dynamicplans.Context); Nil is the nil context
SpecCreds == Obj("Projects" :> ("p1" :> (("publicKey" :> "pub") @@ ("privateKey" :> "priv"))))

Contexts ==
    { Nil,
      EmptyDoc,
      ("Project" :> Obj(("ID" :> "p1") @@ ("Name" :> "demo") @@ ("OrgID" :> "org1")))
        @@ ("Credentials" :> SpecCreds),
      ("Project" :> Obj(("ID" :> "p2") @@ ("Name" :> "demo") @@ ("OrgID" :> "org1")))
        @@ ("Credentials" :> SpecCreds),
      ("Project" :> Str("oops")),
      ("Project" :> Obj("Name" :> "demo")),
      ("Project" :> Obj(("Name" :> "demo") @@ ("OrgID" :> "org1"))) @@ ("hook" :> Chan),
      ("Project" :> Obj(("Name" :> "demo") @@ ("OrgID" :> "org3"))),
      ("Project" :> Null) }

\* the instance state store at start: instance id -> InstanceRecord
StoredKey == ("orgID" :> "org2") @@ ("publicKey" :> "pub2") @@ ("privateKey" :> "priv2")

StoredProject == ("id" :> "p1") @@ ("name" :> "demo") @@ ("orgId" :> "org1")

Record(planValue) == [Parameters |-> Obj("plan" :> planValue)]

InitialStore ==
    ("i-org" :> Record(Obj("project" :> Obj(StoredProject))))
    @@ ("i-key" :> Record(Obj(("apiKey" :> Obj(StoredKey)) @@ ("project" :> Obj(StoredProject)))))
    @@ ("i-noproject" :> Record(Obj("cluster" :> Obj("instanceSizeName" :> "M10"))))
    @@ ("i-keyonly" :> Record(Obj("apiKey" :> Obj(StoredKey))))
    @@ ("i-corrupt" :> Record(Obj(("project" :> Str("oops")) @@ ("apiKey" :> Obj(StoredKey)))))
    @@ ("i-planstr" :> Record(Str("oops")))
    @@ ("i-noplan" :> [Parameters |-> Obj("other" :> Str("x"))])
    @@ ("i-params" :> [Parameters |-> Str("oops")])

InstanceIDs == DOMAIN InitialStore \cup {"i-new"}

\* ------------------------------------------------------ plan resolution
\* Broker.getInstance: read of the state store
getInstance(st, instanceID) ==
    IF instanceID \in DOMAIN st
    THEN [i |-> st[instanceID], err |-> NoErr]
    ELSE [i |-> Nil, err |-> "instance not found"]

\* Broker.getInstancePlan
getInstancePlan(st, instanceID) ==
    LET r      == getInstance(st, instanceID)
        params == r.i.Parameters
        p      == params.v["plan"]
        d      == DecodePlan(ZeroPlan, p.v, PlanFold, TRUE)
    IN CASE r.err # NoErr -> [dp |-> Nil, err |-> "cannot fetch instance"]
         [] r.err = NoErr /\ params.t # "obj" ->
                [dp |-> Nil, err |-> "instance metadata has the wrong type"]
         [] r.err = NoErr /\ params.t = "obj" /\ "plan" \notin DOMAIN params.v ->
                [dp |-> Nil, err |-> "plan not found in instance metadata"]
         [] r.err = NoErr /\ params.t = "obj" /\ "plan" \in DOMAIN params.v /\ p.t # "obj" ->
                [dp |-> Nil, err |-> "instance metadata plan has the wrong type"]
         [] OTHER ->
                [dp |-> d.plan, err |-> IF d.bad THEN "cannot decode instance plan" ELSE NoErr]

\* the catalog lookup that accepts an entry without a template and hands an
\* empty template to the renderer
lookupTemplate_anyEntry(planID) ==
    CASE planID \notin DOMAIN Catalog ->
            [tpl |-> "", err |-> "plan ID not found in catalog"]
      [] planID \in DOMAIN Catalog /\ "template" \notin DOMAIN Catalog[planID] ->
            [tpl |-> "", err |-> NoErr]
      [] OTHER -> [tpl |-> Catalog[planID]["template"], err |-> NoErr]

\* parsePlan, lines 88-98: the catalog entry of planID and its template
lookupTemplate(planID) ==
    CASE planID \notin DOMAIN Catalog ->
            [tpl |-> "", err |-> "plan ID not found in catalog"]
      [] planID \in DOMAIN Catalog /\ "template" \notin DOMAIN Catalog[planID] ->
            [tpl |-> "", err |-> "plan does not contain a valid plan template"]
      [] OTHER -> [tpl |-> Catalog[planID]["template"], err |-> NoErr]

\* the credential store set on the caller's context itself
templateContext_inPlace(ctx) ==
    [exec   |-> With(ctx, "credentials", [t |-> "credentials"]),
     caller |-> With(ctx, "credentials", [t |-> "credentials"])]

\* parsePlan, line 101: exec is the context the template is executed with,
\* caller is the context the caller passed, as the call leaves it
templateContext(ctx) ==
    [exec   |-> With(ctx, "credentials", [t |-> "credentials"]),
     caller |-> ctx]

\* Broker.parsePlan; steps lists the stages it went through, ctx is the
\* caller's context after the call, pb the document that was merged
parsePlan(ctx, planID) ==
    LET lt  == lookupTemplate(planID)
        tc  == templateContext(ctx)
        ex  == Execute(lt.tpl, tc.exec)
        yd  == YamlDecode(ex.raw)
        pb  == Marshal(tc.caller)
        mg  == Unmarshal(pb, yd.plan)
    IN CASE lt.err # NoErr ->
                [dp |-> Nil, err |-> lt.err, steps |-> <<"catalog">>,
                 mergeFailed |-> FALSE, ctx |-> ctx, pb |-> Nil]
         [] lt.err = NoErr /\ ex.err ->
                [dp |-> Nil, err |-> "template execution failed",
                 steps |-> <<"catalog", "execute">>, mergeFailed |-> FALSE,
                 ctx |-> tc.caller, pb |-> Nil]
         [] lt.err = NoErr /\ ~ex.err /\ yd.bad ->
                [dp |-> yd.plan, err |-> "cannot decode plan document",
                 steps |-> <<"catalog", "execute", "decode">>, mergeFailed |-> FALSE,
                 ctx |-> tc.caller, pb |-> Nil]
         [] OTHER ->
                [dp |-> mg.plan, err |-> NoErr,
                 steps |-> <<"catalog", "execute", "decode", "merge">>,
                 mergeFailed |-> mg.bad, ctx |-> tc.caller, pb |-> pb]

\* the new-instance path without the test for a missing Project
newInstancePlan_noProjectTest(pp) ==
    [dp |-> pp.dp, err |-> pp.err, steps |-> <<"store">> \o pp.steps,
     mergeFailed |-> pp.mergeFailed, ctx |-> pp.ctx, pb |-> pp.pb]

\* Broker.getPlan, lines 165-177: the new-instance path after parsePlan
newInstancePlan(pp) ==
    CASE pp.err # NoErr ->
            [dp |-> pp.dp, err |-> pp.err, steps |-> <<"store">> \o pp.steps,
             mergeFailed |-> FALSE, ctx |-> pp.ctx, pb |-> pp.pb]
      [] pp.err = NoErr /\ IsNil(pp.dp.Project) ->
            [dp |-> pp.dp, err |-> "missing Project in plan definition",
             steps |-> <<"store">> \o pp.steps, mergeFailed |-> pp.mergeFailed,
             ctx |-> pp.ctx, pb |-> pp.pb]
      [] OTHER ->
            [dp |-> pp.dp, err |-> NoErr, steps |-> <<"store">> \o pp.steps,
             mergeFailed |-> pp.mergeFailed, ctx |-> pp.ctx, pb |-> pp.pb]

\* getPlan with the two paths in the other order: a supplied context is
\* rendered even when the instance has a record
getPlan_renderFirst(st, instanceID, planID, planCtx) ==
    LET ip == getInstancePlan(st, instanceID)
    IN IF ~IsNil(planCtx)
       THEN newInstancePlan(parsePlan(planCtx, planID))
       ELSE [dp |-> ip.dp,
             err |-> IF ip.err = NoErr THEN NoErr ELSE "cannot find plan for instance",
             steps |-> <<"store">>, mergeFailed |-> FALSE, ctx |-> planCtx, pb |-> Nil]

\* getPlan without the nil-context exit: a nil context renders as an empty one
getPlan_nilAsEmpty(st, instanceID, planID, planCtx) ==
    LET ip == getInstancePlan(st, instanceID)
    IN IF ip.err = NoErr
       THEN [dp |-> ip.dp, err |-> NoErr, steps |-> <<"store">>, mergeFailed |-> FALSE,
             ctx |-> planCtx, pb |-> Nil]
       ELSE newInstancePlan(parsePlan(IF IsNil(planCtx) THEN EmptyDoc ELSE planCtx, planID))

\* Broker.getPlan
getPlan(st, instanceID, planID, planCtx) ==
    LET ip == getInstancePlan(st, instanceID)
    IN CASE ip.err = NoErr ->
                [dp |-> ip.dp, err |-> NoErr, steps |-> <<"store">>, mergeFailed |-> FALSE,
                 ctx |-> planCtx, pb |-> Nil]
         [] ip.err # NoErr /\ IsNil(planCtx) ->
                [dp |-> ip.dp, err |-> "cannot find plan for instance",
                 steps |-> <<"store">>, mergeFailed |-> FALSE, ctx |-> planCtx, pb |-> Nil]
         [] OTHER -> newInstancePlan(parsePlan(planCtx, planID))

\* ------------------------------------------------------------ the state
VARIABLES
    store,      \* instance state store: instance id -> InstanceRecord
    remote,     \* names of the projects that exist in the remote control plane
    atlasURL,   \* Broker.atlasURL
    call,       \* per worker: the getClient call it is running and its result
    ncalls,     \* number of getClient calls started so far
    realm       \* the realm client: its tokens and the Do call it is running

vars == <<store, remote, atlasURL, call, ncalls, realm>>

Workers == {"w1"}

ProjectNames == {"demo", "pinned-proj"}

AtlasURLs == {"https://cloud.mongodb.com", "://bad"}

\* the definition the remote control plane holds for a project
RemoteProject(name) == [ID |-> "remote-id", Name |-> name, OrgID |-> "org1"]

\* outcomes of Projects.GetOneProjectByName
LookupOutcomes(rem, name) ==
    (IF name \in rem THEN {"found"} ELSE {"not found"}) \cup {"transient", "cancelled"}

\* ------------------------------------------------------ the realm client
\* what the HTTP transport can hand to Client.do: an error, with the context
\* cancelled or not, or a response with a status code and a body
Statuses == {199, 200, 299, 300, 401, 500}

Bodies == {"empty", "json", "text", "unreadable"}

Outcomes ==
    [kind : {"error"}, cancelled : BOOLEAN]
    \cup [kind : {"response"}, status : Statuses, body : Bodies]

\* the values v a caller passes to Do: nil, an io.Writer, a value to decode into
Targets == {"nil", "writer", "struct"}

\* CheckResponse
CheckResponse(status, body) ==
    CASE status >= 200 /\ status <= 299 -> NoErr
      [] ~(status >= 200 /\ status <= 299) /\ body \in {"json", "text"} -> "api error"
      [] OTHER -> NoErr

\* Client.do: the *Response and the error it returns for a transport outcome;
\* decoded tells whether v was filled from a JSON body
do(outcome, v) ==
    LET resp == [status |-> outcome.status, body |-> outcome.body]
        ce   == CheckResponse(outcome.status, outcome.body)
    IN CASE outcome.kind = "error" ->
                [resp |-> Nil, decoded |-> FALSE,
                 err |-> IF outcome.cancelled THEN "context canceled" ELSE "transport error"]
         [] outcome.kind = "response" /\ ce # NoErr ->
                [resp |-> resp, err |-> ce, decoded |-> FALSE]
         [] outcome.kind = "response" /\ ce = NoErr /\ v = "nil" ->
                [resp |-> resp, err |-> NoErr, decoded |-> FALSE]
         [] outcome.kind = "response" /\ ce = NoErr /\ v = "writer" ->
                IF outcome.body = "unreadable"
                THEN [resp |-> Nil, err |-> "copy error", decoded |-> FALSE]
                ELSE [resp |-> resp, err |-> NoErr, decoded |-> FALSE]
         [] OTHER ->
                [resp |-> resp,
                 err |-> IF outcome.body \in {"text", "unreadable"}
                         THEN "decode error" ELSE NoErr,
                 decoded |-> outcome.body = "json"]

\* Client.refreshToken: the session request decodes into c.auth
refreshToken(outcome) ==
    LET r == do(outcome, "struct")
    IN [err |-> IF r.err # NoErr THEN "cannot do refresh request" ELSE NoErr,
        refreshed |-> r.decoded]

RealmIdle ==
    [pc |-> "idle", v |-> "nil", sends |-> 0, refreshes |-> 0, resp |-> Nil,
     err |-> NoErr, token |-> "t0", check |-> Nil, first |-> Nil, calls |-> 0,
     refreshErr |-> NoErr]

Idle ==
    [pc |-> "idle", instanceID |-> "", planID |-> "", planCtx |-> Nil,
     dp |-> Nil, err |-> NoErr, client |-> Nil, key |-> ZeroKey,
     steps |-> << >>, mergeFailed |-> FALSE, routed |-> Nil,
     lookup |-> "none", prev |-> Nil, ctxAfter |-> Nil, pb |-> Nil]

Init ==
    /\ store = InitialStore
    /\ remote = {}
    /\ atlasURL \in AtlasURLs
    /\ call = [w \in Workers |-> Idle]
    /\ ncalls = 0
    /\ realm = RealmIdle

\* a caller starts getClient(ctx, instanceID, planID, planCtx)
Call(w, instanceID, planID, planCtx) ==
    /\ call[w].pc = "idle"
    /\ ncalls < MaxCalls
    /\ ncalls' = ncalls + 1
    /\ call' = [call EXCEPT ![w] =
                  [Idle EXCEPT !.pc = "getPlan", !.instanceID = instanceID,
                               !.planID = planID, !.planCtx = planCtx]]
    /\ UNCHANGED <<store, remote, atlasURL, realm>>

\* the caller repeats the request it made last
Retry(w) ==
    /\ call[w].pc = "idle"
    /\ 0 < ncalls /\ ncalls < MaxCalls
    /\ ncalls' = ncalls + 1
    /\ call' = [call EXCEPT ![w] =
                  [Idle EXCEPT !.pc = "getPlan", !.instanceID = call[w].instanceID,
                               !.planID = call[w].planID, !.planCtx = call[w].planCtx,
                               !.prev = [dp |-> call[w].dp, err |-> call[w].err,
                                         lookup |-> call[w].lookup]]]
    /\ UNCHANGED <<store, remote, atlasURL, realm>>

\* getClient, lines 180-183: resolve the Plan, return on error
GetPlanStep(w) ==
    LET c == call[w]
        r == getPlan(store, c.instanceID, c.planID, c.planCtx)
    IN /\ c.pc = "getPlan"
       /\ call' = [call EXCEPT ![w] =
                     [c EXCEPT !.dp = r.dp, !.err = r.err, !.steps = r.steps,
                               !.mergeFailed = r.mergeFailed,
                               !.ctxAfter = r.ctx, !.pb = r.pb,
                               !.pc = IF r.err # NoErr THEN "done" ELSE "route"]]
       /\ UNCHANGED <<store, remote, atlasURL, ncalls, realm>>

\* the credential switch with its first two cases exchanged: a non-empty
\* Project.OrgID is looked up before an explicit APIKey is considered
routeCredentials_orgFirst(dp) ==
    CASE IsNil(dp.Project) ->
            [panic |-> TRUE, dp |-> dp, key |-> ZeroKey, err |-> NoErr, steps |-> << >>]
      [] ~IsNil(dp.Project) /\ dp.Project.OrgID # "" ->
            [panic |-> FALSE, dp |-> dp, key |-> ByOrg(dp.Project.OrgID).key,
             err |-> ByOrg(dp.Project.OrgID).err, steps |-> <<"byOrg">>]
      [] ~IsNil(dp.Project) /\ dp.Project.OrgID = "" /\ ~IsNil(dp.APIKey) ->
            [panic |-> FALSE, dp |-> [dp EXCEPT !.Project.OrgID = dp.APIKey.OrgID],
             key |-> dp.APIKey, err |-> NoErr, steps |-> << >>]
      [] OTHER ->
            [panic |-> FALSE, dp |-> dp, key |-> ZeroKey,
             err |-> "template must contain either APIKey or Project.OrgID",
             steps |-> << >>]

\* the credential switch that drops the error of Credentials.ByOrg
routeCredentials_ignoreLookupError(dp) ==
    CASE IsNil(dp.Project) ->
            [panic |-> TRUE, dp |-> dp, key |-> ZeroKey, err |-> NoErr, steps |-> << >>]
      [] ~IsNil(dp.Project) /\ ~IsNil(dp.APIKey) ->
            [panic |-> FALSE, dp |-> [dp EXCEPT !.Project.OrgID = dp.APIKey.OrgID],
             key |-> dp.APIKey, err |-> NoErr, steps |-> << >>]
      [] ~IsNil(dp.Project) /\ IsNil(dp.APIKey) /\ dp.Project.OrgID # "" ->
            [panic |-> FALSE, dp |-> dp, key |-> ByOrg(dp.Project.OrgID).key,
             err |-> NoErr, steps |-> <<"byOrg">>]
      [] OTHER ->
            [panic |-> FALSE, dp |-> dp, key |-> ZeroKey,
             err |-> "template must contain either APIKey or Project.OrgID",
             steps |-> << >>]

\* getClient, lines 185-201: the credential switch.  panic is the nil
\* pointer dereference of dp.Project
routeCredentials(dp) ==
    CASE ~IsNil(dp.APIKey) /\ IsNil(dp.Project) ->
            [panic |-> TRUE, dp |-> dp, key |-> ZeroKey, err |-> NoErr, steps |-> << >>]
      [] ~IsNil(dp.APIKey) /\ ~IsNil(dp.Project) ->
            [panic |-> FALSE, dp |-> [dp EXCEPT !.Project.OrgID = dp.APIKey.OrgID],
             key |-> dp.APIKey, err |-> NoErr, steps |-> << >>]
      [] IsNil(dp.APIKey) /\ IsNil(dp.Project) ->
            [panic |-> TRUE, dp |-> dp, key |-> ZeroKey, err |-> NoErr, steps |-> << >>]
      [] IsNil(dp.APIKey) /\ ~IsNil(dp.Project) /\ dp.Project.OrgID # "" ->
            [panic |-> FALSE, dp |-> dp, key |-> ByOrg(dp.Project.OrgID).key,
             err |-> ByOrg(dp.Project.OrgID).err, steps |-> <<"byOrg">>]
      [] OTHER ->
            [panic |-> FALSE, dp |-> dp, key |-> ZeroKey,
             err |-> "template must contain either APIKey or Project.OrgID",
             steps |-> << >>]

\* mongodbatlas.New(hc, SetBaseURL(b.atlasURL))
newClient(key, url) ==
    IF url = "://bad"
    THEN [client |-> Nil, err |-> "cannot create Atlas client"]
    ELSE [client |-> [PublicKey |-> key.PublicKey, PrivateKey |-> key.PrivateKey,
                      BaseURL |-> url],
          err |-> NoErr]

\* routing that reads the Plan from a place all calls share: the Plan routed
\* is the one of any call that has just resolved its Plan
Route_sharedPlan(w) ==
    \E v \in DOMAIN call :
        LET c  == call[w]
            r  == routeCredentials(call[v].dp)
            nc == newClient(r.key, atlasURL)
        IN /\ c.pc = "route"
           /\ call[v].pc = "route"
           /\ call' = [call EXCEPT ![w] =
                CASE r.panic -> [c EXCEPT !.pc = "panic"]
                  [] ~r.panic /\ r.err # NoErr ->
                        [c EXCEPT !.pc = "done", !.dp = r.dp, !.err = r.err,
                                  !.steps = c.steps \o r.steps]
                  [] ~r.panic /\ r.err = NoErr /\ nc.err # NoErr ->
                        [c EXCEPT !.pc = "done", !.dp = r.dp, !.key = r.key, !.err = nc.err,
                                  !.steps = c.steps \o r.steps \o <<"client">>]
                  [] OTHER ->
                        [c EXCEPT !.pc = "reconcile", !.dp = r.dp, !.key = r.key,
                                  !.client = nc.client, !.routed = r.dp,
                                  !.steps = c.steps \o r.steps \o <<"client">>]]
           /\ UNCHANGED <<store, remote, atlasURL, ncalls, realm>>

\* getClient, lines 185-213: credential routing and client construction
Route(w) ==
    LET c  == call[w]
        r  == routeCredentials(c.dp)
        nc == newClient(r.key, atlasURL)
    IN /\ c.pc = "route"
       /\ call' = [call EXCEPT ![w] =
            CASE r.panic -> [c EXCEPT !.pc = "panic"]
              [] ~r.panic /\ r.err # NoErr ->
                    [c EXCEPT !.pc = "done", !.dp = r.dp, !.err = r.err,
                              !.steps = c.steps \o r.steps]
              [] ~r.panic /\ r.err = NoErr /\ nc.err # NoErr ->
                    [c EXCEPT !.pc = "done", !.dp = r.dp, !.key = r.key, !.err = nc.err,
                              !.steps = c.steps \o r.steps \o <<"client">>]
              [] OTHER ->
                    [c EXCEPT !.pc = "reconcile", !.dp = r.dp, !.key = r.key,
                              !.client = nc.client, !.routed = r.dp,
                              !.steps = c.steps \o r.steps \o <<"client">>]]
       /\ UNCHANGED <<store, remote, atlasURL, ncalls, realm>>

\* the reconcile step that ignores a successful lookup
reconcile_keep(dp, outcome) == [dp |-> dp, err |-> NoErr]

\* the reconcile step that assigns the lookup's result without testing its error
reconcile_adoptAlways(dp, outcome) ==
    [dp |-> [dp EXCEPT !.Project = RemoteProject(dp.Project.Name)], err |-> NoErr]

\* getClient, lines 215-225: adopt the remote project when the lookup succeeds
reconcile(dp, outcome) ==
    IF outcome = "found"
    THEN [dp |-> [dp EXCEPT !.Project = RemoteProject(dp.Project.Name)], err |-> NoErr]
    ELSE [dp |-> dp, err |-> NoErr]

\* a resolution that commits an InstanceRecord for the instance as soon as the
\* remote API was contacted, whatever the lookup's outcome
Reconcile_saveRecord(w) ==
    LET c == call[w]
    IN /\ c.pc = "reconcile"
       /\ \E outcome \in LookupOutcomes(remote, c.dp.Project.Name) :
             call' = [call EXCEPT ![w] =
                        [c EXCEPT !.pc = "done", !.dp = reconcile(c.dp, outcome).dp,
                                  !.err = reconcile(c.dp, outcome).err,
                                  !.lookup = outcome,
                                  !.steps = c.steps \o <<"lookup">>]]
       /\ store' = (c.instanceID :> Record(Obj("project" :> Obj(StoredProject)))) @@ store
       /\ UNCHANGED <<remote, atlasURL, ncalls, realm>>

Reconcile(w) ==
    LET c == call[w]
    IN /\ c.pc = "reconcile"
       /\ \E outcome \in LookupOutcomes(remote, c.dp.Project.Name) :
             call' = [call EXCEPT ![w] =
                        [c EXCEPT !.pc = "done", !.dp = reconcile(c.dp, outcome).dp,
                                  !.err = reconcile(c.dp, outcome).err,
                                  !.lookup = outcome,
                                  !.steps = c.steps \o <<"lookup">>]]
       /\ UNCHANGED <<store, remote, atlasURL, ncalls, realm>>

\* getClient returns to its caller
Return(w) ==
    /\ call[w].pc = "done"
    /\ call' = [call EXCEPT ![w].pc = "idle"]
    /\ UNCHANGED <<store, remote, atlasURL, ncalls, realm>>

\* the provisioning caller creates the project in the remote control plane
CreateProject(name) ==
    /\ name \notin remote
    /\ remote' = remote \cup {name}
    /\ UNCHANGED <<store, atlasURL, call, ncalls, realm>>

Next ==
    \/ \E w \in Workers, i \in InstanceIDs, p \in PlanIDs, c \in Contexts : Call(w, i, p, c)
    \/ \E w \in Workers : Retry(w)
    \/ \E w \in Workers : GetPlanStep(w)
    \/ \E w \in Workers : Route(w)
    \/ \E w \in Workers : Reconcile(w)
    \/ \E w \in Workers : Return(w)
    \/ \E name \in ProjectNames : CreateProject(name)

Spec == Init /\ [][Next]_vars

brokerVars == <<store, remote, atlasURL, call, ncalls>>

\* a caller starts Client.Do(ctx, req, v)
RealmDo(v) ==
    /\ realm.pc = "idle"
    /\ realm.calls < MaxDoCalls
    /\ realm' = [RealmIdle EXCEPT !.pc = "send", !.v = v, !.token = realm.token,
                                  !.calls = realm.calls + 1]
    /\ UNCHANGED brokerVars

\* Client.Do, lines 327-343: the first attempt and what Do makes of it
RealmSend(outcome) ==
    LET r == do(outcome, realm.v)
        chk == IF outcome.kind = "response"
               THEN [status |-> outcome.status, body |-> outcome.body,
                     err |-> CheckResponse(outcome.status, outcome.body)]
               ELSE Nil
    IN /\ realm.pc = "send"
       /\ realm' =
            CASE r.err # NoErr /\ ~IsNil(r.resp) /\ r.resp.status = 401 ->
                    [realm EXCEPT !.pc = "refresh", !.sends = 1, !.check = chk,
                                  !.first = [resp |-> r.resp, err |-> r.err]]
              [] r.err # NoErr /\ (IsNil(r.resp) \/ r.resp.status # 401) ->
                    [realm EXCEPT !.pc = "returned", !.sends = 1, !.check = chk,
                                  !.resp = Nil, !.err = r.err,
                                  !.first = [resp |-> r.resp, err |-> r.err]]
              [] OTHER ->
                    [realm EXCEPT !.pc = "returned", !.sends = 1, !.check = chk,
                                  !.resp = r.resp, !.err = NoErr,
                                  !.first = [resp |-> r.resp, err |-> r.err]]
       /\ UNCHANGED brokerVars

\* a Do that sends the request again whether or not the token refresh succeeded
RealmRefresh_resendAnyway(outcome) ==
    LET r == refreshToken(outcome)
    IN /\ realm.pc = "refresh"
       /\ realm' = [realm EXCEPT !.pc = "resend", !.refreshes = realm.refreshes + 1,
                                 !.refreshErr = r.err,
                                 !.token = IF r.refreshed THEN "t1" ELSE realm.token]
       /\ UNCHANGED brokerVars

\* Client.Do, lines 332-335: the token refresh after a 401
RealmRefresh(outcome) ==
    LET r == refreshToken(outcome)
    IN /\ realm.pc = "refresh"
       /\ realm' =
            IF r.err # NoErr
            THEN [realm EXCEPT !.pc = "returned", !.refreshes = realm.refreshes + 1,
                               !.refreshErr = r.err,
                               !.resp = Nil, !.err = "cannot refresh auth token"]
            ELSE [realm EXCEPT !.pc = "resend", !.refreshes = realm.refreshes + 1,
                               !.refreshErr = r.err,
                               !.token = IF r.refreshed THEN "t1" ELSE realm.token]
       /\ UNCHANGED brokerVars

\* Client.Do, lines 337-338: the request is sent again and do's result returned
RealmResend(outcome) ==
    LET r == do(outcome, realm.v)
    IN /\ realm.pc = "resend"
       /\ realm' = [realm EXCEPT !.pc = "returned", !.sends = realm.sends + 1,
                                 !.resp = r.resp, !.err = r.err,
                                 !.check = IF outcome.kind = "response"
                                           THEN [status |-> outcome.status,
                                                 body |-> outcome.body,
                                                 err |-> CheckResponse(outcome.status,
                                                                       outcome.body)]
                                           ELSE Nil]
       /\ UNCHANGED brokerVars

\* Do returns to its caller
RealmReturn ==
    /\ realm.pc = "returned"
    /\ realm' = [realm EXCEPT !.pc = "idle"]
    /\ UNCHANGED brokerVars

NextRealm ==
    \/ \E v \in Targets : RealmDo(v)
    \/ \E outcome \in Outcomes : RealmSend(outcome)
    \/ \E outcome \in Outcomes : RealmRefresh(outcome)
    \/ \E outcome \in Outcomes : RealmResend(outcome)
    \/ RealmReturn

SpecRealm == Init /\ [][NextRealm]_vars

\* the steps Do takes by itself once called: the transport answers every
\* request with a response or an error, and Do runs on to its return
DoSteps ==
    \/ \E outcome \in Outcomes : RealmSend(outcome)
    \/ \E outcome \in Outcomes : RealmRefresh(outcome)
    \/ \E outcome \in Outcomes : RealmResend(outcome)
    \/ RealmReturn

SpecRealmFair == SpecRealm /\ WF_vars(DoSteps)

\* ------------------------------------------- two calls running concurrently
ConcWorkers == {"w1", "w2"}

ConcInstanceIDs == {"i-new", "i-key", "i-org"}

ConcPlanIDs == {"full-plan", "pinned"}

ConcContexts ==
    { Nil,
      ("Project" :> Obj("Name" :> "demo")),
      ("Project" :> Obj(("ID" :> "p1") @@ ("Name" :> "demo") @@ ("OrgID" :> "org1")))
        @@ ("Credentials" :> SpecCreds) }

\* the store, the catalog, the credentials and the remote state stay as they
\* are while the calls run
InitConc ==
    /\ store = InitialStore
    /\ remote \in SUBSET {"demo"}
    /\ atlasURL \in AtlasURLs
    /\ call = [w \in ConcWorkers |-> Idle]
    /\ ncalls = 0
    /\ realm = RealmIdle

NextConc ==
    \/ \E w \in ConcWorkers, i \in ConcInstanceIDs, p \in ConcPlanIDs, c \in ConcContexts :
          Call(w, i, p, c)
    \/ \E w \in ConcWorkers : GetPlanStep(w)
    \/ \E w \in ConcWorkers : Route(w)
    \/ \E w \in ConcWorkers : Reconcile(w)
    \/ \E w \in ConcWorkers : Return(w)

SpecConc == InitConc /\ [][NextConc]_vars

TypeOK ==
    /\ DOMAIN store = DOMAIN InitialStore
    /\ remote \subseteq ProjectNames
    /\ \A w \in DOMAIN call : call[w].pc \in {"idle", "getPlan", "route", "reconcile", "done", "panic"}

\* ------------------------------------------------------------ properties
Resolved(w) == call[w].steps # << >>

Returned(w) == call[w].pc \in {"done", "idle"} /\ Resolved(w)

StepSet(w) == {call[w].steps[i] : i \in 1..Len(call[w].steps)}

HasRecord(instanceID) == instanceID \in DOMAIN store

\* the Plan getPlan handed to credential routing for the request of worker w
Requested(w) == getPlan(store, call[w].instanceID, call[w].planID, call[w].planCtx)

LookupFailures == {"not found", "transient", "cancelled"}

\* C1: when an InstanceRecord exists but cannot be turned into a Plan,
\* getPlan fails the request and never goes on to the catalog and the
\* template, whatever the plan id and the request context are.
C1_CorruptRecordIsFatal ==
    \A w \in Workers :
        ( /\ Resolved(w)
          /\ HasRecord(call[w].instanceID)
          /\ getInstancePlan(store, call[w].instanceID).err # NoErr )
        => /\ call[w].steps = <<"store">>
           /\ call[w].pc \in {"done", "idle"}
           /\ call[w].err # NoErr

\* C2: when the store holds a decodable InstanceRecord, getPlan returns the
\* Plan decoded from it with no error, for every plan id and every request
\* context; the catalog is not consulted, nothing is rendered or merged.
C2_ExistingInstancePath ==
    \A w \in Workers :
        ( /\ Resolved(w)
          /\ HasRecord(call[w].instanceID)
          /\ getInstancePlan(store, call[w].instanceID).err = NoErr )
        => /\ call[w].steps[1] = "store"
           /\ StepSet(w) \cap {"catalog", "execute", "decode", "merge"} = {}
           /\ ~call[w].mergeFailed
           /\ ~(call[w].pc = "done" /\ call[w].steps = <<"store">>)
           /\ call[w].pc = "route" =>
                 /\ call[w].err = NoErr
                 /\ call[w].dp =
                      DecodePlan(ZeroPlan,
                                 store[call[w].instanceID].Parameters.v["plan"].v,
                                 PlanFold, TRUE).plan

C2_Witness ==
    \E w \in Workers :
        /\ call[w].pc = "route"
        /\ call[w].instanceID = "i-key"
        /\ call[w].planID = "cluster-only"
        /\ ~IsNil(call[w].planCtx)
        /\ call[w].dp.Project = [ID |-> "p1", Name |-> "demo", OrgID |-> "org1"]

\* C3: after every successful getClient the returned Plan has a non-nil
\* Project whose organization id is non-empty.
C3_ProjectHasOrg ==
    \A w \in Workers :
        (Returned(w) /\ call[w].err = NoErr)
        => /\ ~IsNil(call[w].dp.Project)
           /\ call[w].dp.Project.OrgID # ""

\* C4: no resolution request crashes: credential routing never reads or
\* writes plan.Project while it is nil.
C4_NeverPanics ==
    \A w \in Workers : call[w].pc # "panic"

\* C5: a Plan with both an explicit APIKey and a non-empty Project.OrgID is
\* routed with the explicit key pair verbatim, without consulting the
\* Credential Store, and Project.OrgID becomes the key's organization id.
C5_ExplicitKeyWins ==
    \A w \in Workers :
        ( /\ call[w].pc \in {"reconcile", "done", "idle"}
          /\ Resolved(w)
          /\ Requested(w).err = NoErr
          /\ ~IsNil(Requested(w).dp.APIKey)
          /\ ~IsNil(Requested(w).dp.Project)
          /\ Requested(w).dp.Project.OrgID # "" )
        => /\ "byOrg" \notin StepSet(w)
           /\ call[w].key = Requested(w).dp.APIKey
           /\ ~IsNil(call[w].client) =>
                 /\ call[w].client.PublicKey = Requested(w).dp.APIKey.PublicKey
                 /\ call[w].client.PrivateKey = Requested(w).dp.APIKey.PrivateKey
           /\ ~IsNil(call[w].routed) =>
                 call[w].routed.Project.OrgID = Requested(w).dp.APIKey.OrgID
           /\ call[w].pc = "reconcile" =>
                 call[w].dp.Project.OrgID = Requested(w).dp.APIKey.OrgID

C5_Witness ==
    \E w \in Workers :
        /\ call[w].pc = "reconcile"
        /\ ~IsNil(Requested(w).dp.APIKey)
        /\ Requested(w).dp.Project.OrgID = "org1"
        /\ Requested(w).dp.APIKey.OrgID = "org2"
        /\ call[w].dp.Project.OrgID = "org2"
        /\ call[w].client.PublicKey = "pub2"

C7_LookupFailureSwallowed ==
    \A w \in Workers :
        call[w].lookup \in LookupFailures
        => /\ call[w].err = NoErr
           /\ ~IsNil(call[w].client)
           /\ call[w].dp = call[w].routed

C7_Witness ==
    \E w \in Workers :
        /\ call[w].pc = "done"
        /\ call[w].lookup = "transient"
        /\ call[w].dp.Project.Name \in remote
        /\ call[w].dp.Project.ID = "p1"

\* C8: when overlaying the request context onto the rendered Plan fails,
\* parsePlan surfaces a merge error and does not return the unmerged or
\* partially merged Plan as a success.
C8_MergeErrorSurfaced ==
    \A w \in Workers :
        call[w].mergeFailed
        => /\ call[w].pc \in {"done", "idle"}
           /\ call[w].err = "cannot merge context into plan"

\* C9: every resolution ends with a Plan, a client and no error, or with an
\* error, no Plan and no client.
C9_PlanOrError ==
    \A w \in Workers :
        call[w].pc = "done"
        => \/ call[w].err = NoErr /\ ~IsNil(call[w].dp) /\ ~IsNil(call[w].client)
           \/ call[w].err # NoErr /\ IsNil(call[w].dp) /\ IsNil(call[w].client)

\* C10: with no InstanceRecord and a nil request context getPlan returns an
\* instance-not-found error without looking up the catalog or rendering, and
\* getClient performs no credential lookup and no remote lookup.
C10_InstanceNotFound ==
    \A w \in Workers :
        (Resolved(w) /\ ~HasRecord(call[w].instanceID) /\ IsNil(call[w].planCtx))
        => /\ call[w].pc \in {"done", "idle"}
           /\ call[w].err = "cannot find plan for instance"
           /\ call[w].steps = <<"store">>
           /\ call[w].lookup = "none"
           /\ IsNil(call[w].client)

C10_Witness ==
    \E w \in Workers :
        /\ call[w].pc = "done"
        /\ call[w].instanceID = "i-new"
        /\ call[w].planID = "full-plan"
        /\ IsNil(call[w].planCtx)
        /\ call[w].err # NoErr

\* the request of worker w takes the new-instance path
NewInstance(w) ==
    /\ Resolved(w)
    /\ getInstancePlan(store, call[w].instanceID).err # NoErr
    /\ ~IsNil(call[w].planCtx)

\* what parsePlan yields for the request of worker w
Parsed(w) == parsePlan(call[w].planCtx, call[w].planID)

\* C11: on the new-instance path a plan id absent from the catalog, or a
\* catalog entry without template metadata, makes parsePlan return an error
\* and no Plan; the template is not executed and nothing is merged.
C11_NoTemplateNoPlan ==
    \A w \in Workers :
        ( /\ NewInstance(w)
          /\ \/ call[w].planID \notin DOMAIN Catalog
             \/ "template" \notin DOMAIN Catalog[call[w].planID] )
        => /\ call[w].pc \in {"done", "idle"}
           /\ call[w].err \in {"plan ID not found in catalog",
                               "plan does not contain a valid plan template"}
           /\ IsNil(call[w].dp)
           /\ call[w].steps = <<"store", "catalog">>
           /\ IsNil(call[w].pb)

C11_Witness ==
    \E w \in Workers :
        /\ call[w].pc = "done"
        /\ call[w].instanceID = "i-new"
        /\ call[w].planID = "bogus"
        /\ ~IsNil(call[w].planCtx)
        /\ call[w].err = "plan does not contain a valid plan template"

\* C12: on the new-instance path a Plan that has a nil Project after render
\* and merge makes getPlan return a missing-project error, and getClient stops
\* before credential routing and before any remote lookup.
C12_MissingProject ==
    \A w \in Workers :
        ( /\ NewInstance(w)
          /\ Parsed(w).err = NoErr
          /\ IsNil(Parsed(w).dp.Project) )
        => /\ call[w].pc \in {"done", "idle"}
           /\ call[w].err = "missing Project in plan definition"
           /\ StepSet(w) \cap {"byOrg", "client", "lookup"} = {}
           /\ IsNil(call[w].client)
           /\ IsNil(call[w].routed)
           /\ call[w].lookup = "none"

C12_Witness ==
    \E w \in Workers :
        /\ call[w].pc = "done"
        /\ call[w].instanceID = "i-new"
        /\ call[w].planID = "cluster-only"
        /\ call[w].planCtx = EmptyDoc
        /\ "merge" \in StepSet(w)
        /\ call[w].err = "missing Project in plan definition"

\* C13: a resolved Plan with neither an explicit APIKey nor a non-empty
\* Project.OrgID makes getClient return a missing-credential error; no client
\* is built and no remote lookup is attempted.
C13_MissingCredential ==
    \A w \in Workers :
        ( /\ Resolved(w)
          /\ call[w].pc \in {"reconcile", "done", "idle", "panic"}
          /\ Requested(w).err = NoErr
          /\ IsNil(Requested(w).dp.APIKey)
          /\ \/ IsNil(Requested(w).dp.Project)
             \/ Requested(w).dp.Project.OrgID = "" )
        => /\ call[w].pc \in {"done", "idle"}
           /\ call[w].err = "template must contain either APIKey or Project.OrgID"
           /\ IsNil(call[w].client)
           /\ StepSet(w) \cap {"client", "lookup"} = {}

\* the Plan the template of worker w's request renders, before the merge
Rendered(w) ==
    YamlDecode(Execute(lookupTemplate(call[w].planID).tpl,
                       templateContext(call[w].planCtx).exec).raw).plan

\* C14: overlay law of the context merge: a Plan field whose key is absent
\* from the serialized context keeps the value the template set, a field whose
\* key is present is replaced by the context's value, with nothing of the
\* template's sub-object kept.
C14_OverlayLaw ==
    \A w \in Workers :
        ( /\ NewInstance(w)
          /\ "merge" \in StepSet(w)
          /\ ~call[w].mergeFailed
          /\ call[w].pc = "route" )
        => \A fld \in DOMAIN ZeroPlan :
              LET ks == KeysFor(call[w].planCtx, PlanFold, fld)
              IN call[w].dp[fld] =
                    IF ks = {}
                    THEN Rendered(w)[fld]
                    ELSE DecodeField(fld, ZeroPlan[fld],
                                     call[w].planCtx[CHOOSE k \in ks : TRUE], TRUE).v

\* C15: CheckResponse reports an error for every status outside 200..299 and
\* nil for every status inside, whatever the body; Do never returns a nil
\* error together with a response whose status is outside 200..299.
C15_NonSuccessIsError ==
    /\ ~IsNil(realm.check) =>
          (realm.check.err = NoErr <=> (realm.check.status >= 200 /\ realm.check.status <= 299))
    /\ (realm.pc = "returned" /\ realm.err = NoErr /\ ~IsNil(realm.resp)) =>
          (realm.resp.status >= 200 /\ realm.resp.status <= 299)

\* the context of the full-plan scenario
ScenarioCtx ==
    ("Project" :> Obj(("ID" :> "p1") @@ ("Name" :> "demo") @@ ("OrgID" :> "org1")))
    @@ ("Credentials" :> SpecCreds)

\* C16: full-plan rendered with Project {p1, demo, org1} and the key pair
\* {pub, priv} for p1, then merged with the context, is the Plan with that key
\* pair, that Project, cluster size M20, one database user and the two
\* whitelist entries 0.0.0.0/1 and 128.0.0.0/1, each with groupId p1.
C16_FullPlanScenario ==
    \A w \in Workers :
        ( /\ NewInstance(w)
          /\ call[w].pc = "route"
          /\ call[w].planID = "full-plan"
          /\ call[w].planCtx = ScenarioCtx )
        => /\ ~IsNil(call[w].dp.APIKey)
           /\ call[w].dp.APIKey.PublicKey = "pub"
           /\ call[w].dp.APIKey.PrivateKey = "priv"
           /\ call[w].dp.Project = [ID |-> "p1", Name |-> "demo", OrgID |-> "org1"]
           /\ call[w].dp.Cluster = [InstanceSizeName |-> "M20"]
           /\ Len(call[w].dp.DatabaseUsers) = 1
           /\ call[w].dp.DatabaseUsers[1].Username = "test-user"
           /\ Len(call[w].dp.IPWhitelists) = 2
           /\ call[w].dp.IPWhitelists[1].IPAddress = "0.0.0.0/1"
           /\ call[w].dp.IPWhitelists[2].IPAddress = "128.0.0.0/1"
           /\ \A i \in 1..2 : call[w].dp.IPWhitelists[i].GroupID = "p1"

C16_Witness ==
    \E w \in Workers :
        /\ call[w].pc = "route"
        /\ call[w].instanceID = "i-new"
        /\ call[w].planID = "full-plan"
        /\ call[w].planCtx = ScenarioCtx
        /\ "merge" \in StepSet(w)
        /\ ~call[w].mergeFailed
        /\ Len(call[w].dp.IPWhitelists) = 2

\* the orders in which one call can go through its stages
StageOrders ==
    { <<"store", "catalog", "execute", "decode", "merge", "byOrg", "client", "lookup">>,
      <<"store", "catalog", "execute", "decode", "merge", "client", "lookup">>,
      <<"store", "byOrg", "client", "lookup">>,
      <<"store", "client", "lookup">> }

IsPrefix(s, t) == Len(s) <= Len(t) /\ \A i \in 1..Len(s) : s[i] = t[i]

\* C17: within one getClient call the store is read first; catalog lookup,
\* render and merge happen only when that read failed and a context was
\* supplied; routing only after a Plan was obtained without error; the remote
\* lookup only after the client was built; each stage runs at most once and an
\* error at any stage prevents all later stages.
C17_StageOrder ==
    \A w \in Workers :
        Resolved(w)
        => /\ \E t \in StageOrders : IsPrefix(call[w].steps, t)
           /\ "catalog" \in StepSet(w) =>
                 /\ getInstancePlan(store, call[w].instanceID).err # NoErr
                 /\ ~IsNil(call[w].planCtx)
           /\ StepSet(w) \cap {"byOrg", "client", "lookup"} # {} =>
                 Requested(w).err = NoErr
           /\ "lookup" \in StepSet(w) => ~IsNil(call[w].client)
           /\ call[w].err # NoErr => call[w].pc \in {"done", "idle"}
           /\ call[w].mergeFailed =>
                 StepSet(w) \cap {"byOrg", "client", "lookup"} = {}

\* C18: with no explicit APIKey and a non-empty Project.OrgID the key pair of
\* the client is the one the Credential Store holds for that org id and
\* routing leaves Project.OrgID alone; when the store lookup fails getClient
\* returns that error, no client, and makes no remote lookup.
C18_OrgRouted ==
    \A w \in Workers :
        ( /\ Resolved(w)
          /\ call[w].pc \in {"reconcile", "done", "idle"}
          /\ Requested(w).err = NoErr
          /\ IsNil(Requested(w).dp.APIKey)
          /\ ~IsNil(Requested(w).dp.Project)
          /\ Requested(w).dp.Project.OrgID # "" )
        => LET org == Requested(w).dp.Project.OrgID
           IN IF org \in DOMAIN OrgKeys
              THEN /\ "byOrg" \in StepSet(w)
                   /\ call[w].key = OrgKeys[org]
                   /\ ~IsNil(call[w].client) =>
                         /\ call[w].client.PublicKey = OrgKeys[org].PublicKey
                         /\ call[w].client.PrivateKey = OrgKeys[org].PrivateKey
                   /\ ~IsNil(call[w].routed) => call[w].routed = Requested(w).dp
              ELSE /\ call[w].pc \in {"done", "idle"}
                   /\ call[w].err = "no credentials for org"
                   /\ IsNil(call[w].client)
                   /\ call[w].lookup = "none"
                   /\ StepSet(w) \cap {"client", "lookup"} = {}

C18_Witness ==
    \E w \in Workers :
        /\ call[w].pc = "reconcile"
        /\ call[w].instanceID = "i-org"
        /\ "byOrg" \in StepSet(w)
        /\ call[w].client.PublicKey = "pub1"
        /\ call[w].dp.Project.OrgID = "org1"

\* C20: parsePlan does not change the caller's context: after the call it has
\* no "credentials" entry and is what the caller passed, and the document
\* merged onto the Plan is built from it, without the credential store.
C20_ContextNotMutated ==
    \A w \in Workers :
        (NewInstance(w) /\ "execute" \in StepSet(w))
        => /\ call[w].ctxAfter = call[w].planCtx
           /\ "credentials" \notin DOMAIN call[w].ctxAfter
           /\ (~IsNil(call[w].pb) /\ call[w].pb.ok) =>
                 /\ call[w].pb.doc = call[w].planCtx
                 /\ "credentials" \notin DOMAIN call[w].pb.doc

C20_Witness ==
    \E w \in Workers :
        /\ call[w].pc = "route"
        /\ call[w].planID = "full-plan"
        /\ call[w].planCtx = ScenarioCtx
        /\ "merge" \in StepSet(w)
        /\ ~IsNil(call[w].pb)
        /\ call[w].pb.ok
        /\ DOMAIN call[w].pb.doc = {"Project", "Credentials"}

\* what getClient returns for the request of worker w when it runs alone and
\* its remote lookup ends with call[w].lookup
Alone(w) ==
    LET g  == getPlan(store, call[w].instanceID, call[w].planID, call[w].planCtx)
        r  == routeCredentials(g.dp)
        nc == newClient(r.key, atlasURL)
        rc == reconcile(r.dp, call[w].lookup)
    IN CASE g.err # NoErr -> [dp |-> g.dp, err |-> g.err, client |-> Nil]
         [] g.err = NoErr /\ r.err # NoErr -> [dp |-> r.dp, err |-> r.err, client |-> Nil]
         [] g.err = NoErr /\ r.err = NoErr /\ nc.err # NoErr ->
                [dp |-> r.dp, err |-> nc.err, client |-> Nil]
         [] OTHER -> [dp |-> rc.dp, err |-> rc.err, client |-> nc.client]

\* C19: calls running concurrently do not interfere: under every interleaving
\* of two getClient calls against an unchanged store, catalog, credential
\* store and remote state, each call returns the Plan, the error and the
\* client it returns when run alone.
C19_NoInterference ==
    \A w \in DOMAIN call :
        call[w].pc = "done"
        => /\ call[w].dp = Alone(w).dp
           /\ call[w].err = Alone(w).err
           /\ call[w].client = Alone(w).client
           /\ call[w].lookup = "found" => call[w].routed.Project.Name \in remote

C19_Witness ==
    /\ DOMAIN call = ConcWorkers
    /\ call["w1"].pc = "done"
    /\ call["w1"].instanceID = "i-new"
    /\ call["w1"].planID = "full-plan"
    /\ call["w1"].lookup = "found"
    /\ call["w2"].pc = "reconcile"
    /\ call["w2"].instanceID = "i-key"
    /\ call["w2"].dp.Project.OrgID = "org2"

\* C21: plan resolution only reads the instance state store: whatever the
\* outcome of getPlan and getClient (success, error, cancelled context,
\* failure after the remote API was contacted), the store holds the records
\* it held before the call with the same contents, so a later get for an
\* instance that had no record still finds none.
C21_StoreReadOnly ==
    /\ store = InitialStore
    /\ \A w \in Workers :
          (Resolved(w) /\ call[w].instanceID \notin DOMAIN InitialStore)
          => getInstance(store, call[w].instanceID).err # NoErr

C21_Witness ==
    \E w \in Workers :
        /\ call[w].pc = "done"
        /\ call[w].instanceID = "i-new"
        /\ call[w].lookup = "cancelled"
        /\ ~IsNil(call[w].prev)
        /\ call[w].prev.lookup = "transient"
        /\ ~HasRecord("i-new")

\* the first attempt of the running Do call ended with an error and a 401 response
FirstUnauthorized ==
    /\ ~IsNil(realm.first)
    /\ realm.first.err # NoErr
    /\ ~IsNil(realm.first.resp)
    /\ realm.first.resp.status = 401

DoBounded ==
    /\ realm.sends <= 2
    /\ realm.refreshes <= 1
    /\ realm.refreshes = 1 => FirstUnauthorized
    /\ realm.sends = 2 => (FirstUnauthorized /\ realm.refreshes = 1 /\ realm.refreshErr = NoErr)
    /\ realm.pc = "resend" => (realm.refreshes = 1 /\ realm.refreshErr = NoErr)
    /\ (realm.pc = "returned" /\ realm.refreshes = 1 /\ realm.refreshErr # NoErr)
          => (realm.sends = 1 /\ realm.err # NoErr /\ IsNil(realm.resp))
    /\ (realm.pc = "returned" /\ realm.first.err # NoErr /\ ~FirstUnauthorized)
          => ( /\ realm.refreshes = 0
               /\ realm.sends = 1
               /\ realm.err = realm.first.err
               /\ IsNil(realm.resp) )

\* C22: one call of Client.Do sends the request at most twice and refreshes
\* the token at most once; the second send happens only after a first attempt
\* that ended with an error and status 401 and a refresh that succeeded; a
\* failed refresh makes Do return an error without sending again; any other
\* error of the first attempt is returned without a refresh; and every call
\* of Do returns, even when the server answers 401 to every request.
C22_BoundedRefresh ==
    /\ []DoBounded
    /\ (realm.pc = "send") ~> (realm.pc = "returned")

C22_Witness ==
    /\ realm.pc = "returned"
    /\ realm.sends = 2
    /\ realm.refreshes = 1
    /\ FirstUnauthorized
    /\ realm.err # NoErr
    /\ ~IsNil(realm.resp)
    /\ realm.resp.status = 401

====
